---- MODULE Spec2Model ----
(***************************************************************************)
(* Chess move-validation core of "Chess Game/design.py": the singleton     *)
(* Board, the Piece hierarchy's movement rules, and Game's turn/capture    *)
(* state machine (Game.__init__, is_valid_move, make_move).                *)
(*                                                                         *)
(* A piece object is identified by a number 1..32 fixed at board set-up;   *)
(* 0 stands for Python's None.  A cell position is a pair <<row, col>>.    *)
(* The driver is any caller of the public API: it creates Game objects and *)
(* calls make_move on any of them with four integers.                      *)
(***************************************************************************)
EXTENDS Integers, Sequences, FiniteSets, TLC

(* ------------------------------ bounds --------------------------------- *)
\* Game objects the process creates.
MaxGames == 2
\* Accepted moves of the one game of Spec.
MaxMoves == 7
\* Accepted moves, over all games, when several games share the board (SpecGames).
MaxSharedMoves == 4
\* Pieces besides the rook and the two kings on a board of SpecRook.
MaxBlockers == 2
\* Largest n_row and n_col, snake_len and n_fruits given to the snake Game.
MaxSide == 3
MaxSnakeLen == 2
MaxFruits == 2
\* The snake is followed until its deque holds this many positions.
MaxBody == 4

(* ------------------------- program constants --------------------------- *)
\* Board.__init__: [[None] * 8 for _ in range(8)]
N == 8

Rows == 0 .. (N - 1)
Games == 1 .. MaxGames
Pieces == 1 .. (4 * N)
None == 0

Abs(x) == IF x < 0 THEN -x ELSE x
Max(x, y) == IF x > y THEN x ELSE y

(* --------------------------- Python lists ------------------------------ *)
\* list.__getitem__ on a list of length N: an index in -N..N-1 is served
\* (a negative one counts from the end), any other raises IndexError.
InList(i) == i \in (-N) .. (N - 1)
Index(i) == IF i < 0 THEN i + N ELSE i

(* ------------------------------ pieces --------------------------------- *)
\* Board.initialize_board: piece_order
piece_order == <<"rook", "knight", "bishop", "queen", "king", "bishop", "knight", "rook">>

\* The piece object initialize_board puts on cell (row, col); None for rows 2..5.
\* Black (is_white = False) on rows 0 and 1, white on rows 6 and 7.
InitialPiece(row, col) ==
  CASE row = 0 -> col + 1
    [] row = 1 -> N + col + 1
    [] row = 6 -> 2 * N + col + 1
    [] row = 7 -> 3 * N + col + 1
    [] OTHER -> None

\* Piece.is_white as given to PieceFactory.create by initialize_board.
is_white(p) == p > 2 * N

\* The class PieceFactory.create instantiates for the piece.
Kind(p) ==
  IF p > N /\ p <= 3 * N THEN "pawn" ELSE piece_order[((p - 1) % N) + 1]

\* Board.initialize_board: the 8x8 array of cells after set-up.
InitialBoard == [row \in Rows |-> [col \in Rows |-> InitialPiece(row, col)]]

\* The cells before any Board exists (Board._instance is None).
NoBoard == [row \in Rows |-> [col \in Rows |-> None]]

(* --------------------------- movement rules ---------------------------- *)
\* Python's range(start, stop, step) for step 1 or -1, as a set.
Range(start, stop, step) ==
  IF step = 1 THEN start .. (stop - 1) ELSE (stop + 1) .. start

\* Rook._path_clear with the column branch lost: only a row path is examined.
Rook_path_clear_row_only(b, start, end) ==
  IF start[1] = end[1]
  THEN LET step == IF end[2] > start[2] THEN 1 ELSE -1
       IN  \A col \in Range(start[2] + step, end[2], step) : b[start[1]][col] = None
  ELSE TRUE

\* Rook._path_clear: the cells strictly between start and end on a row or column.
Rook_path_clear(b, start, end) ==
  IF start[1] = end[1]
  THEN LET step == IF end[2] > start[2] THEN 1 ELSE -1
       IN  \A col \in Range(start[2] + step, end[2], step) : b[start[1]][col] = None
  ELSE IF start[2] = end[2]
  THEN LET step == IF end[1] > start[1] THEN 1 ELSE -1
       IN  \A row \in Range(start[1] + step, end[1], step) : b[row][start[2]] = None
  ELSE TRUE

\* Rook._can_move
Rook_can_move(b, start, end) ==
  LET x_diff == Abs(start[1] - end[1])
      y_diff == Abs(start[2] - end[2])
  IN  IF x_diff # 0 /\ y_diff # 0 THEN FALSE ELSE Rook_path_clear(b, start, end)

\* Knight._can_move with the sum of the differences for their product.
Knight_can_move_sum(b, start, end) ==
  LET x_diff == Abs(start[1] - end[1])
      y_diff == Abs(start[2] - end[2])
  IN  x_diff + y_diff = 3

\* Knight._can_move
Knight_can_move(b, start, end) ==
  LET x_diff == Abs(start[1] - end[1])
      y_diff == Abs(start[2] - end[2])
  IN  x_diff * y_diff = 2

\* Bishop._check_path_clear, the while loop from (row, col): it is entered only
\* with |row delta| = |col delta| >= 1, so the walk meets (end_row, end_col)
\* on the board.
RECURSIVE Bishop_walk(_, _, _, _, _, _, _)
Bishop_walk(b, row, col, end_row, end_col, row_step, col_step) ==
  IF row # end_row /\ col # end_col
  THEN IF b[row][col] # None
       THEN FALSE
       ELSE Bishop_walk(b, row + row_step, col + col_step, end_row, end_col, row_step, col_step)
  ELSE TRUE

\* Bishop._check_path_clear with an "if" for the "while": only the first cell of
\* the diagonal is examined.
Bishop_check_path_clear_first(b, start, end) ==
  LET row_step == IF start[1] < end[1] THEN 1 ELSE -1
      col_step == IF start[2] < end[2] THEN 1 ELSE -1
      row == start[1] + row_step
      col == start[2] + col_step
  IN  IF row # end[1] /\ col # end[2] THEN b[row][col] = None ELSE TRUE

\* Bishop._check_path_clear
Bishop_check_path_clear(b, start, end) ==
  LET row_step == IF start[1] < end[1] THEN 1 ELSE -1
      col_step == IF start[2] < end[2] THEN 1 ELSE -1
  IN  Bishop_walk(b, start[1] + row_step, start[2] + col_step, end[1], end[2], row_step, col_step)

\* Bishop._can_move
Bishop_can_move(b, start, end) ==
  LET x_diff == Abs(start[1] - end[1])
      y_diff == Abs(start[2] - end[2])
  IN  IF x_diff # y_diff THEN FALSE ELSE Bishop_check_path_clear(b, start, end)

\* King._can_move with the sum of the differences for their maximum.
King_can_move_straight(b, start, end) ==
  LET x_diff == Abs(start[1] - end[1])
      y_diff == Abs(start[2] - end[2])
  IN  x_diff + y_diff = 1

\* King._can_move
King_can_move(b, start, end) ==
  LET x_diff == Abs(start[1] - end[1])
      y_diff == Abs(start[2] - end[2])
  IN  Max(x_diff, y_diff) = 1

\* Queen._can_move without the bishop's half.
Queen_can_move_rook_only(b, start, end) == Rook_can_move(b, start, end)

\* Queen._can_move: Rook(...)._can_move(...) or Bishop(...)._can_move(...);
\* Python's "or" evaluates the bishop rule only when the rook rule is false.
Queen_can_move(b, start, end) ==
  IF Rook_can_move(b, start, end) THEN TRUE ELSE Bishop_can_move(b, start, end)

\* Pawn._can_move without the home-rank test of the two-step advance.
Pawn_can_move_any_rank(b, piece, start, end) ==
  LET direction == IF is_white(piece) THEN -1 ELSE 1
      end_piece == b[end[1]][end[2]]
  IN  \/ /\ start[2] = end[2]
         /\ end[1] - start[1] \in {direction, 2 * direction}
         /\ end_piece = None
      \/ /\ Abs(start[2] - end[2]) = 1
         /\ end[1] - start[1] = direction
         /\ end_piece # None
         /\ is_white(end_piece) # is_white(piece)

\* Pawn._can_move, for the pawn `piece` standing on start.
Pawn_can_move(b, piece, start, end) ==
  LET direction == IF is_white(piece) THEN -1 ELSE 1
      end_piece == b[end[1]][end[2]]
  IN  \/ /\ start[2] = end[2]
         /\ end[1] - start[1] = direction
         /\ end_piece = None
      \/ /\ start[2] = end[2]
         /\ \/ is_white(piece) /\ start[1] = 6
            \/ ~is_white(piece) /\ start[1] = 1
         /\ end[1] - start[1] = 2 * direction
         /\ end_piece = None
      \/ /\ Abs(start[2] - end[2]) = 1
         /\ end[1] - start[1] = direction
         /\ end_piece # None
         /\ is_white(end_piece) # is_white(piece)

\* The _can_move of the piece's class (dynamic dispatch on Kind).
Variant_can_move(b, piece, start, end) ==
  CASE Kind(piece) = "rook"   -> Rook_can_move(b, start, end)
    [] Kind(piece) = "knight" -> Knight_can_move(b, start, end)
    [] Kind(piece) = "bishop" -> Bishop_can_move(b, start, end)
    [] Kind(piece) = "king"   -> King_can_move(b, start, end)
    [] Kind(piece) = "queen"  -> Queen_can_move(b, start, end)
    [] Kind(piece) = "pawn"   -> Pawn_can_move(b, piece, start, end)

\* Piece.can_move with the friendly-fire guard applied to other cells only.
can_move_guard_elsewhere(b, piece, start, end) ==
  LET end_piece == b[end[1]][end[2]]
  IN  IF end # start /\ end_piece # None /\ is_white(end_piece) = is_white(piece)
      THEN FALSE
      ELSE Variant_can_move(b, piece, start, end)

\* Piece.can_move without the friendly-fire guard.
can_move_unguarded(b, piece, start, end) == Variant_can_move(b, piece, start, end)

\* Piece.can_move: the friendly-fire guard, then the variant's rule.
can_move(b, piece, start, end) ==
  LET end_piece == b[end[1]][end[2]]
  IN  IF end_piece # None /\ is_white(end_piece) = is_white(piece)
      THEN FALSE
      ELSE Variant_can_move(b, piece, start, end)

\* Game.is_valid_move for the game whose side-to-move is `turn`.
is_valid_move(b, turn, start, end) ==
  LET piece == b[start[1]][start[2]]
  IN  IF piece = None THEN FALSE
      ELSE IF is_white(piece) # turn THEN FALSE
      ELSE can_move(b, piece, start, end)

(* ------------------------------ make_move ------------------------------ *)
\* GameState
IN_PROGRESS == "in_progress"
WHITE_WIN == "white_win"
BLACK_WIN == "black_win"
DRAW == "draw"
GameState == {IN_PROGRESS, WHITE_WIN, BLACK_WIN, DRAW}

\* The capture branch naming white the winner whoever moved.
StateAfterCapture_white(state, turn, end_piece) ==
  IF end_piece # None /\ Kind(end_piece) = "king" THEN WHITE_WIN ELSE state

\* The capture branch with the wrong enum member for a black win.
StateAfterCapture_draw(state, turn, end_piece) ==
  IF end_piece # None /\ Kind(end_piece) = "king"
  THEN (IF turn THEN WHITE_WIN ELSE DRAW)
  ELSE state

\* make_move, the capture branch: current_state after a valid move of the side
\* `turn` onto a cell holding end_piece.
StateAfterCapture(state, turn, end_piece) ==
  IF end_piece # None /\ Kind(end_piece) = "king"
  THEN (IF turn THEN WHITE_WIN ELSE BLACK_WIN)
  ELSE state

\* make_move without the capture branch's is_killed = True.
KilledAfterCapture_unset(killed, end_piece) == killed

\* make_move, the capture branch: the is_killed flags after a valid move onto a
\* cell holding end_piece.
KilledAfterCapture(killed, end_piece) ==
  IF end_piece # None THEN [killed EXCEPT ![end_piece] = TRUE] ELSE killed

\* make_move with the turn flip lost.
TurnAfterMove_kept(turn) == turn

\* make_move: self.is_white_turn = not self.is_white_turn
TurnAfterMove(turn) == ~turn

\* make_move without start_cell.piece = None: the mover is copied.
Relocate_copy(b, start, end) == [b EXCEPT ![end[1]][end[2]] = b[start[1]][start[2]]]

\* make_move: end_cell.piece = start_cell.piece, then start_cell.piece = None.
Relocate(b, start, end) ==
  LET placed == [b EXCEPT ![end[1]][end[2]] = b[start[1]][start[2]]]
  IN  [placed EXCEPT ![start[1]][start[2]] = None]

\* Game.make_move(start_row, start_col, end_row, end_col) of a game with
\* side-to-move `turn` and state `state`, on cells b with flags killed: what it
\* returns (or raises) and the values it leaves behind.  The two list lookups
\* come first and raise IndexError before anything is written.
make_move(b, killed, turn, state, start_row, start_col, end_row, end_col) ==
  IF ~(InList(start_row) /\ InList(start_col) /\ InList(end_row) /\ InList(end_col))
  THEN [ret |-> "IndexError", board |-> b, is_killed |-> killed,
        is_white_turn |-> turn, current_state |-> state]
  ELSE LET start == <<Index(start_row), Index(start_col)>>
           end == <<Index(end_row), Index(end_col)>>
           end_piece == b[end[1]][end[2]]
       IN  IF is_valid_move(b, turn, start, end)
           THEN [ret |-> "True",
                 board |-> Relocate(b, start, end),
                 is_killed |-> KilledAfterCapture(killed, end_piece),
                 is_white_turn |-> TurnAfterMove(turn),
                 current_state |-> StateAfterCapture(state, turn, end_piece)]
           ELSE [ret |-> "False", board |-> b, is_killed |-> killed,
                 is_white_turn |-> turn, current_state |-> state]

(* ------------------------------ the driver ----------------------------- *)
\* The cells the driver names: the e- and f-pawns' squares and the squares of
\* the two queens' raids d1-h5-e8 and d8-h4-e1.
Squares ==
  { <<6, 4>>, <<5, 4>>, <<6, 5>>, <<5, 5>>, <<7, 3>>, <<3, 7>>, <<7, 4>>,
    <<1, 4>>, <<2, 4>>, <<1, 5>>, <<2, 5>>, <<0, 3>>, <<4, 7>>, <<0, 4>> }

\* Calls with a coordinate outside 0..7: too large, negative, below -8.
OffBoardMoves ==
  { <<8, 4, 5, 4>>, <<6, 4, 5, 8>>, <<2, 2, 8, 0>>, <<-9, 4, 5, 4>>,
    <<-2, 4, -3, 4>>, <<1, -4, 2, -4>>, <<3, 3, -1, 0>> }

\* The argument tuples (start_row, start_col, end_row, end_col) the driver passes.
Moves == { <<s[1], s[2], e[1], e[2]>> : s \in Squares, e \in Squares } \cup OffBoardMoves

VARIABLES
  initialized,    \* Board._instance exists and its _initialized flag is set
  board,          \* Board._instance.board[row][col].piece
  is_killed,      \* Piece.is_killed of every piece object
  games,          \* number of Game objects created so far (games 1..games exist)
  is_white_turn,  \* Game.is_white_turn, per game
  current_state,  \* Game.current_state, per game
  accepted,       \* per game, the make_move calls that returned True so far
  call,           \* the API call that has just returned, or op = "none"
  pc,             \* where the first Game's start() is: "idle" (not called), "while"
                  \* (in the loop), "break", "exit" or "raised" (how it was left)
  tictactoe,      \* the Game object of the tic-tac-toe program, or NoGame
  snakegame       \* the Game object of the snake program, or NoGame

vars == <<initialized, board, is_killed, games, is_white_turn, current_state, accepted, call, pc,
          tictactoe, snakegame>>

\* The variables of the chess program.
chess == <<initialized, board, is_killed, games, is_white_turn, current_state, accepted, call, pc>>

\* No Game object of a program: the process runs another of the three programs.
NoGame == <<>>

\* The state a call starts from, kept with the call's record.
Snapshot ==
  [initialized |-> initialized, board |-> board, is_killed |-> is_killed, games |-> games,
   is_white_turn |-> is_white_turn, current_state |-> current_state]

NoCall == [op |-> "none", g |-> 0, args |-> <<>>, ret |-> "none", pre |-> <<>>]

\* The chess module without a Board instance or a Game.
NoChess ==
  /\ initialized = FALSE
  /\ board = NoBoard
  /\ is_killed = [p \in Pieces |-> FALSE]
  /\ games = 0
  /\ is_white_turn = [g \in Games |-> TRUE]
  /\ current_state = [g \in Games |-> IN_PROGRESS]
  /\ accepted = [g \in Games |-> 0]
  /\ call = NoCall
  /\ pc = "idle"

\* Module load: no Board instance, no Game.
Loaded ==
  /\ NoChess
  /\ tictactoe = NoGame
  /\ snakegame = NoGame

\* Board() whose __init__ sets the cells up on every construction.
BoardAfterGetInstance_again == InitialBoard

\* Board.get_instance() / Board(): __new__ hands out the one instance and
\* __init__ sets the cells up only when _initialized is not yet set.
BoardAfterGetInstance == IF initialized THEN board ELSE InitialBoard

\* Game(): Game.__init__.
NewGame ==
  /\ call.op = "none"
  /\ games < MaxGames
  /\ games' = games + 1
  /\ board' = BoardAfterGetInstance
  /\ initialized' = TRUE
  /\ is_white_turn' = [is_white_turn EXCEPT ![games + 1] = TRUE]
  /\ current_state' = [current_state EXCEPT ![games + 1] = IN_PROGRESS]
  /\ call' = [op |-> "Game", g |-> games + 1, args |-> <<>>, ret |-> "none", pre |-> Snapshot]
  /\ UNCHANGED <<is_killed, accepted, pc, tictactoe, snakegame>>

RECURSIVE SumTo(_, _)
SumTo(f, n) == IF n = 0 THEN 0 ELSE f[n] + SumTo(f, n - 1)

\* Accepted moves so far, over all games.
TotalAccepted == SumTo(accepted, MaxGames)

\* game g's make_move(m[1], m[2], m[3], m[4]), from the call to its return or raise.
MakeMove(g, m) ==
  /\ call.op = "none"
  /\ g \in 1 .. games
  /\ LET r == make_move(board, is_killed, is_white_turn[g], current_state[g],
                        m[1], m[2], m[3], m[4])
     IN  /\ board' = r.board
         /\ is_killed' = r.is_killed
         /\ is_white_turn' = [is_white_turn EXCEPT ![g] = r.is_white_turn]
         /\ current_state' = [current_state EXCEPT ![g] = r.current_state]
         /\ accepted' = [accepted EXCEPT ![g] = @ + (IF r.ret = "True" THEN 1 ELSE 0)]
         /\ call' = [op |-> "make_move", g |-> g, args |-> m, ret |-> r.ret, pre |-> Snapshot]
  /\ UNCHANGED <<initialized, games, tictactoe, snakegame>>

\* The caller takes the result and goes on.
Return ==
  /\ call.op # "none"
  /\ call' = NoCall
  /\ UNCHANGED <<initialized, board, is_killed, games, is_white_turn, current_state, accepted, pc,
                 tictactoe, snakegame>>

\* A fresh process that has just created its Game: Game() run from Loaded.
Init ==
  /\ initialized = TRUE
  /\ board = InitialBoard
  /\ is_killed = [p \in Pieces |-> FALSE]
  /\ games = 1
  /\ is_white_turn = [g \in Games |-> TRUE]
  /\ current_state = [g \in Games |-> IN_PROGRESS]
  /\ accepted = [g \in Games |-> 0]
  /\ call = [op |-> "Game", g |-> 1, args |-> <<>>, ret |-> "none",
             pre |-> [initialized |-> FALSE, board |-> NoBoard,
                      is_killed |-> [p \in Pieces |-> FALSE], games |-> 0,
                      is_white_turn |-> [g \in Games |-> TRUE],
                      current_state |-> [g \in Games |-> IN_PROGRESS]]]
  /\ pc = "idle"
  /\ tictactoe = NoGame
  /\ snakegame = NoGame

\* One game, driven through make_move.
Next ==
  \/ /\ call.op = "none"
     /\ TotalAccepted < MaxMoves
     /\ \E m \in Moves : MakeMove(1, m)
     /\ UNCHANGED pc
  \/ Return

Spec == Init /\ [][Next]_vars

\* A process that creates several games, all driven through make_move.
NextGames ==
  \/ NewGame
  \/ /\ call.op = "none"
     /\ TotalAccepted < MaxSharedMoves
     /\ \E g \in Games, m \in Moves : MakeMove(g, m)
     /\ UNCHANGED pc
  \/ Return

SpecGames == Loaded /\ [][NextGames]_vars

(* ---------------------------- the game loop ---------------------------- *)
\* A tuple of the wrong length, as console_move_provider returns for a line of
\* three numbers.
ShortMoves == { <<6, 4, 5>> }

\* game.start(move_provider) is called on the first Game.
Start ==
  /\ pc = "idle"
  /\ call.op = "none"
  /\ pc' = "while"
  /\ UNCHANGED <<initialized, board, is_killed, games, is_white_turn, current_state,
                 accepted, call, tictactoe, snakegame>>

\* The while test fails: start returns.
LoopExit ==
  /\ pc = "while"
  /\ call.op = "none"
  /\ current_state[1] # IN_PROGRESS
  /\ pc' = "exit"
  /\ UNCHANGED <<initialized, board, is_killed, games, is_white_turn, current_state,
                 accepted, call, tictactoe, snakegame>>

\* An iteration in which move_provider returns None: break.
ProviderNone ==
  /\ pc = "while"
  /\ call.op = "none"
  /\ current_state[1] = IN_PROGRESS
  /\ pc' = "break"
  /\ call' = [op |-> "move_provider", g |-> 1, args |-> <<>>, ret |-> "None", pre |-> Snapshot]
  /\ UNCHANGED <<initialized, board, is_killed, games, is_white_turn, current_state, accepted,
                 tictactoe, snakegame>>

\* An iteration in which move_provider returns a tuple that does not unpack
\* into four names: ValueError leaves start.
ProviderShort(m) ==
  /\ pc = "while"
  /\ call.op = "none"
  /\ current_state[1] = IN_PROGRESS
  /\ pc' = "raised"
  /\ call' = [op |-> "move_provider", g |-> 1, args |-> m, ret |-> "ValueError", pre |-> Snapshot]
  /\ UNCHANGED <<initialized, board, is_killed, games, is_white_turn, current_state, accepted,
                 tictactoe, snakegame>>

\* An iteration in which move_provider returns the four numbers m: make_move is
\* called and the loop goes on, unless make_move raises.
Iterate(m) ==
  /\ pc = "while"
  /\ current_state[1] = IN_PROGRESS
  /\ MakeMove(1, m)
  /\ pc' = IF call'.ret = "IndexError" THEN "raised" ELSE "while"

\* play_chess_game: one Game, run by its start loop.
NextStart ==
  \/ Start
  \/ LoopExit
  \/ ProviderNone
  \/ \E m \in ShortMoves : ProviderShort(m)
  \/ /\ call.op = "none"
     /\ TotalAccepted < MaxMoves
     /\ \E m \in Moves : Iterate(m)
  \/ Return

SpecStart == Init /\ [][NextStart]_vars

(* --------------------- the movement rules, applied --------------------- *)
Cells == Rows \X Rows

\* Home cells of the two kings (row 7 white, row 0 black).
KingHome(white) == IF white THEN <<7, 4>> ELSE <<0, 4>>
KingOf(white) == InitialPiece(KingHome(white)[1], KingHome(white)[2])

\* Knights, queens and rooks, which reach cells of either colour, to stand as
\* blockers.
WhitePool == <<26, 31, 28, 25, 32>>
BlackPool == <<2, 7, 4, 1, 8>>

Rank(cell) == cell[1] * N + cell[2]

\* The board with both kings at home, `subject` on cell `at`, and on every cell
\* of DOMAIN tint a blocker, white where tint is TRUE; all other pieces captured.
Position(subject, at, tint) ==
  LET nth(cell) == Cardinality({d \in DOMAIN tint : tint[d] = tint[cell] /\ Rank(d) <= Rank(cell)})
      others(pool) == SelectSeq(pool, LAMBDA p : p # subject)
      on(cell) ==
        IF cell = at THEN subject
        ELSE IF cell \in DOMAIN tint
             THEN (IF tint[cell] THEN others(WhitePool)[nth(cell)]
                   ELSE others(BlackPool)[nth(cell)])
        ELSE IF cell = KingHome(TRUE) /\ subject # KingOf(TRUE) THEN KingOf(TRUE)
        ELSE IF cell = KingHome(FALSE) /\ subject # KingOf(FALSE) THEN KingOf(FALSE)
        ELSE None
  IN  [row \in Rows |-> [col \in Rows |-> on(<<row, col>>)]]

\* Cells on the row or column of `at`, and its four diagonal neighbours.
Around(at) ==
  { c \in Cells :
      /\ c # at /\ c # KingHome(TRUE) /\ c # KingHome(FALSE)
      /\ \/ c[1] = at[1]
         \/ c[2] = at[2]
         \/ Abs(c[1] - at[1]) = 1 /\ Abs(c[2] - at[2]) = 1 }

\* Blocker placements on the cells of `around`: at most MaxBlockers cells, each
\* white or black.
TintsOn(around) ==
  UNION { [S -> BOOLEAN] : S \in { T \in SUBSET around : Cardinality(T) <= MaxBlockers } }

\* Blocker placements around a rook on `at`.
Tints(at) == TintsOn(Around(at))

\* The boards of SpecRook: the white queen-side rook in its corner, or the
\* black queen-side rook in the middle of the board.
RookBoards ==
  { Position(25, <<7, 0>>, t) : t \in Tints(<<7, 0>>) }
  \cup { Position(1, <<3, 3>>, t) : t \in Tints(<<3, 3>>) }

\* A game in progress on board b.
InPosition(b) ==
  /\ initialized = TRUE
  /\ board = b
  /\ is_killed = [p \in Pieces |-> \A c \in Cells : b[c[1]][c[2]] # p]
  /\ games = 1
  /\ is_white_turn = [g \in Games |-> TRUE]
  /\ current_state = [g \in Games |-> IN_PROGRESS]
  /\ accepted = [g \in Games |-> 0]
  /\ call = NoCall
  /\ pc = "idle"
  /\ tictactoe = NoGame
  /\ snakegame = NoGame

\* piece.can_move(board, start, end) for the piece on start.
CanMove(start, end) ==
  /\ call.op = "none"
  /\ board[start[1]][start[2]] # None
  /\ call' = [op |-> "can_move", g |-> 0, args |-> <<start[1], start[2], end[1], end[2]>>,
              ret |-> IF can_move(board, board[start[1]][start[2]], start, end)
                      THEN "True" ELSE "False",
              pre |-> Snapshot]
  /\ UNCHANGED <<initialized, board, is_killed, games, is_white_turn, current_state, accepted, pc,
                 tictactoe, snakegame>>

InitRook == \E b \in RookBoards : InPosition(b)

NextRook ==
  \/ /\ call.op = "none"
     /\ \E start \in Cells, end \in Cells :
          /\ board[start[1]][start[2]] # None
          /\ Kind(board[start[1]][start[2]]) = "rook"
          /\ CanMove(start, end)
  \/ Return

SpecRook == InitRook /\ [][NextRook]_vars

\* The rule of one piece kind: can_move applied to the pieces of that kind.
NextRule(kind) ==
  \/ /\ call.op = "none"
     /\ \E start \in Cells, end \in Cells :
          /\ board[start[1]][start[2]] # None
          /\ Kind(board[start[1]][start[2]]) = kind
          /\ CanMove(start, end)
  \/ Return

\* Free cells that are neither `at` nor a king's home.
Free(at) == { c \in Cells : c # at /\ c # KingHome(TRUE) /\ c # KingHome(FALSE) }

\* Cells on the diagonals of `at`, and its four orthogonal neighbours.
AroundBishop(at) ==
  { c \in Free(at) :
      \/ Abs(c[1] - at[1]) = Abs(c[2] - at[2])
      \/ Abs(c[1] - at[1]) + Abs(c[2] - at[2]) = 1 }

\* The boards of SpecBishop: the white queen-side bishop at home, or the black
\* queen-side bishop in the middle of the board (each on a cell of its colour).
BishopBoards ==
  { Position(27, <<7, 2>>, t) : t \in TintsOn(AroundBishop(<<7, 2>>)) }
  \cup { Position(3, <<3, 3>>, t) : t \in TintsOn(AroundBishop(<<3, 3>>)) }

InitBishop == \E b \in BishopBoards : InPosition(b)

NextBishop == NextRule("bishop")

SpecBishop == InitBishop /\ [][NextBishop]_vars

\* The cells a pawn move examines or passes: two rows ahead and behind in the
\* pawn's column, and the neighbours in the adjacent columns.
AroundPawn(at) ==
  { c \in Free(at) :
      \/ c[2] = at[2] /\ Abs(c[1] - at[1]) <= 2
      \/ Abs(c[2] - at[2]) = 1 /\ Abs(c[1] - at[1]) <= 1 }

\* The boards of SpecPawn: the white and the black e-pawn, each on its home rank
\* or in the other side's half of the board after a capture.
PawnBoards ==
  { Position(21, <<6, 4>>, t) : t \in TintsOn(AroundPawn(<<6, 4>>)) }
  \cup { Position(21, <<3, 3>>, t) : t \in TintsOn(AroundPawn(<<3, 3>>)) }
  \cup { Position(13, <<1, 4>>, t) : t \in TintsOn(AroundPawn(<<1, 4>>)) }
  \cup { Position(13, <<4, 3>>, t) : t \in TintsOn(AroundPawn(<<4, 3>>)) }

InitPawn == \E b \in PawnBoards : InPosition(b)

NextPawn == NextRule("pawn")

SpecPawn == InitPawn /\ [][NextPawn]_vars

\* The cells a knight can reach from `at`, and the cells next to `at`.
AroundKnight(at) ==
  { c \in Free(at) :
      \/ Abs(c[1] - at[1]) * Abs(c[2] - at[2]) = 2
      \/ Max(Abs(c[1] - at[1]), Abs(c[2] - at[2])) = 1 }

\* The boards of SpecKnight: the initial position; the white queen-side knight
\* at home, or the black queen-side knight in the middle of the board.
KnightBoards ==
  { InitialBoard }
  \cup { Position(26, <<7, 1>>, t) : t \in TintsOn(AroundKnight(<<7, 1>>)) }
  \cup { Position(2, <<3, 3>>, t) : t \in TintsOn(AroundKnight(<<3, 3>>)) }

InitKnight == \E b \in KnightBoards : InPosition(b)

NextKnight == NextRule("knight")

SpecKnight == InitKnight /\ [][NextKnight]_vars

\* Cells on the row, the column and the diagonals of `at`.
OnLines(at) ==
  { c \in Free(at) :
      \/ c[1] = at[1]
      \/ c[2] = at[2]
      \/ Abs(c[1] - at[1]) = Abs(c[2] - at[2]) }

\* The lines of `at`, up to `far` cells away.
NearLines(at, far) ==
  { c \in OnLines(at) : Max(Abs(c[1] - at[1]), Abs(c[2] - at[2])) <= far }

\* The boards of SpecQueen: the white queen at home with blockers up to three
\* cells away on its lines, or the black queen in the middle of the board with
\* blockers up to two cells away.
QueenBoards ==
  { Position(28, <<7, 3>>, t) : t \in TintsOn(NearLines(<<7, 3>>, 3)) }
  \cup { Position(4, <<3, 3>>, t) : t \in TintsOn(NearLines(<<3, 3>>, 2)) }

InitQueen == \E b \in QueenBoards : InPosition(b)

NextQueen == NextRule("queen")

SpecQueen == InitQueen /\ [][NextQueen]_vars

\* The cells next to `at`, and the cells two columns away on its row.
AroundKing(at) ==
  { c \in Free(at) :
      \/ Max(Abs(c[1] - at[1]), Abs(c[2] - at[2])) = 1
      \/ c[1] = at[1] /\ Abs(c[2] - at[2]) = 2 }

\* The boards of SpecKing: the white king at home, or the black king in the
\* middle of the board (the other king at home).
KingBoards ==
  { Position(29, <<7, 4>>, t) : t \in TintsOn(AroundKing(<<7, 4>>)) }
  \cup { Position(5, <<3, 3>>, t) : t \in TintsOn(AroundKing(<<3, 3>>)) }

InitKing == \E b \in KingBoards : InPosition(b)

NextKing == NextRule("king")

SpecKing == InitKing /\ [][NextKing]_vars

(* ----------------------------- tic-tac-toe ----------------------------- *)
\* Game.__init__(size = 3)
size == 3

\* class Symbol
X == "X"
O == "O"
EMPTY == " "

\* class State
State_IN_PROGRESS == "In Progress"
State_X_WIN == "X Win"
State_O_WIN == "O Win"
State_DRAW == "Draw"

\* range(size)
Lines == 0 .. size - 1

\* Board.__init__: the grid of EMPTY cells.
EmptyGrid == [row \in Lines |-> [col \in Lines |-> EMPTY]]

\* Board.is_valid_move
Board_is_valid_move(grid, row, col) ==
  /\ 0 <= row /\ row < size
  /\ 0 <= col /\ col < size
  /\ grid[row][col] = EMPTY

\* Board.mark_cell: the grid it leaves.
mark_cell(grid, row, col, symbol) ==
  IF Board_is_valid_move(grid, row, col) THEN [grid EXCEPT ![row][col] = symbol] ELSE grid

\* Board.check_winner
check_winner(grid, symbol) ==
  \/ \E row \in Lines : \A col \in Lines : grid[row][col] = symbol
  \/ \E col \in Lines : \A row \in Lines : grid[row][col] = symbol
  \/ \A i \in Lines : grid[i][i] = symbol
  \/ \A i \in Lines : grid[i][size - 1 - i] = symbol

\* self.players[turn].symbol
SymbolOf(turn) == IF turn = 0 THEN X ELSE O

\* Cells outside the grid that a strategy may return.
OffGrid == { <<-1, 0>>, <<0, size>>, <<size, size>> }

\* The (row, col) a PlayerStrategy.make_move may return.
StrategyCells == (Lines \X Lines) \cup OffGrid

\* Game(): the Game object after __init__; move and pre record the last
\* iteration of play (none yet).
NewTicTacToe ==
  [grid |-> EmptyGrid, current_turn |-> 0, current_symbol |-> X,
   current_state |-> State_IN_PROGRESS, remaining_cells |-> size * size,
   move |-> <<>>, pre |-> <<>>]

\* One iteration of Game.play in which the strategy returns (row, col).
Play(row, col) ==
  LET g == tictactoe
      symbol == SymbolOf(g.current_turn)
      grid == mark_cell(g.grid, row, col, symbol)
      remaining == g.remaining_cells - 1
      won == check_winner(grid, symbol)
      goes_on == ~won /\ remaining # 0
      turn == IF goes_on THEN 1 - g.current_turn ELSE g.current_turn
  IN  /\ g.current_state = State_IN_PROGRESS
      /\ tictactoe' =
           [grid |-> grid,
            current_turn |-> turn,
            current_symbol |-> SymbolOf(turn),
            current_state |-> IF won THEN (IF symbol = X THEN State_X_WIN ELSE State_O_WIN)
                              ELSE IF remaining = 0 THEN State_DRAW
                              ELSE State_IN_PROGRESS,
            remaining_cells |-> remaining,
            move |-> <<row, col>>,
            pre |-> [grid |-> g.grid, current_turn |-> g.current_turn,
                     remaining_cells |-> g.remaining_cells]]
      /\ UNCHANGED <<chess, snakegame>>

\* The tic-tac-toe program: Game() has run.
InitTicTacToe ==
  /\ NoChess
  /\ tictactoe = NewTicTacToe
  /\ snakegame = NoGame

\* Game.play with any strategy.
NextTicTacToe == \E cell \in StrategyCells : Play(cell[1], cell[2])

SpecTicTacToe == InitTicTacToe /\ [][NextTicTacToe]_vars

(* -------------------------------- snake -------------------------------- *)
\* class CellValues
CellValues_EMPTY == "EMPTY"
FRUIT == "FRUIT"
SNAKE == "SNAKE"

\* class GameState of the snake program
Snake_IN_PROGRESS == "IN_PROGRESS"
GAME_OVER == "GAME_OVER"

\* class Direction
UP == <<-1, 0>>
DOWN == <<1, 0>>
RIGHT == <<0, 1>>
LEFT == <<0, -1>>
Direction == {UP, DOWN, RIGHT, LEFT}

\* len(grid) and len(grid[0])
NRow(grid) == Cardinality(DOMAIN grid)
NCol(grid) == Cardinality(DOMAIN grid[0])

\* The positions of a grid.
Positions(grid) == (0 .. NRow(grid) - 1) \X (0 .. NCol(grid) - 1)

\* grid[x][y] = value
Put(grid, pos, value) == [grid EXCEPT ![pos[1]][pos[2]] = value]

\* Board.init_snake: the deque, head first, laid out to the right of the
\* middle cell (columns wrap).
RECURSIVE init_snake(_, _, _)
init_snake(snake_len, n_row, n_col) ==
  IF snake_len <= 1 THEN << <<n_row \div 2, n_col \div 2>> >>
  ELSE LET snake == init_snake(snake_len - 1, n_row, n_col)
           last_pos == snake[Len(snake)]
       IN  Append(snake, <<last_pos[1], (last_pos[2] + 1) % n_col>>)

\* The grid after Board.__init__ has run init_snake.
RECURSIVE Laid(_, _, _)
Laid(grid, snake, i) ==
  IF i = 0 THEN grid ELSE Put(Laid(grid, snake, i - 1), snake[i], SNAKE)

\* Board.init_fruits / Board.spawn_new_fruit: the grids that randint can lead
\* to when n more fruits are put on EMPTY cells.
RECURSIVE WithFruits(_, _)
WithFruits(grid, n) ==
  IF n = 0 THEN { grid }
  ELSE UNION { WithFruits(Put(grid, pos, FRUIT), n - 1) :
               pos \in { q \in Positions(grid) : grid[q[1]][q[2]] = CellValues_EMPTY } }

\* Board.spawn_new_fruit: nothing without an EMPTY cell, else one more fruit.
spawn_new_fruit(grid) ==
  IF \A q \in Positions(grid) : grid[q[1]][q[2]] # CellValues_EMPTY
  THEN { grid } ELSE WithFruits(grid, 1)

\* MoveSnakeFruit.move: appendleft, mark the cell.
MoveSnakeFruit(snake, pos, grid) ==
  [snake |-> <<pos>> \o snake, grid |-> Put(grid, pos, SNAKE)]

\* MoveSnakeEmpty.move: appendleft, mark the cell, then pop the tail and
\* clear its cell.
MoveSnakeEmpty(snake, pos, grid) ==
  LET grown == MoveSnakeFruit(snake, pos, grid)
      last == grown.snake[Len(grown.snake)]
  IN  [snake |-> SubSeq(grown.snake, 1, Len(grown.snake) - 1),
       grid |-> Put(grown.grid, last, CellValues_EMPTY)]

\* Game(player_name, player_type, n_row, n_col, snake_len, n_fruits): the Game
\* objects that __init__ can leave; move, branch and pre record the last
\* iteration of play (none yet).
NewSnakeGames(n_row, n_col, snake_len, n_fruits) ==
  LET empty == [x \in 0 .. n_row - 1 |-> [y \in 0 .. n_col - 1 |-> CellValues_EMPTY]]
      snake == init_snake(snake_len, n_row, n_col)
  IN  { [grid |-> grid, snake |-> snake, curr_state |-> Snake_IN_PROGRESS,
         move |-> <<>>, branch |-> "none", pre |-> <<>>] :
        grid \in WithFruits(Laid(empty, snake, Len(snake)), n_fruits) }

\* One iteration of Game.play in which the player moves in direction dir.
PlaySnake(dir) ==
  LET g == snakegame
      head == g.snake[1]
      new_head == <<dir[1] + head[1], (dir[2] + head[2]) % NCol(g.grid)>>
      pre == [grid |-> g.grid, snake |-> g.snake]
  IN  /\ g.curr_state = Snake_IN_PROGRESS
      /\ IF ~(0 <= new_head[1] /\ new_head[1] < NRow(g.grid))
         THEN snakegame' = [g EXCEPT !.curr_state = GAME_OVER, !.move = dir,
                                     !.branch = "boundary", !.pre = pre]
         ELSE IF /\ g.grid[new_head[1]][new_head[2]] = SNAKE
                 /\ new_head # g.snake[Len(g.snake)]
         THEN snakegame' = [g EXCEPT !.curr_state = GAME_OVER, !.move = dir,
                                     !.branch = "itself", !.pre = pre]
         ELSE IF g.grid[new_head[1]][new_head[2]] = FRUIT
         THEN LET moved == MoveSnakeFruit(g.snake, new_head, g.grid)
              IN  \E grid \in spawn_new_fruit(moved.grid) :
                    snakegame' = [g EXCEPT !.snake = moved.snake, !.grid = grid, !.move = dir,
                                           !.branch = FRUIT, !.pre = pre]
         ELSE LET moved == MoveSnakeEmpty(g.snake, new_head, g.grid)
              IN  snakegame' = [g EXCEPT !.snake = moved.snake, !.grid = moved.grid,
                                         !.move = dir, !.branch = CellValues_EMPTY, !.pre = pre]
      /\ UNCHANGED <<chess, tictactoe>>

\* The snake program: Game(...) has run, on a grid of up to MaxSide rows and
\* columns, with a snake that fits into one row.
InitSnake ==
  /\ NoChess
  /\ tictactoe = NoGame
  /\ \E n_row \in 1 .. MaxSide, n_col \in 1 .. MaxSide :
       \E snake_len \in 1 .. MaxSnakeLen, n_fruits \in 1 .. MaxFruits :
         /\ snake_len <= n_col
         /\ snake_len + n_fruits <= n_row * n_col
         /\ snakegame \in NewSnakeGames(n_row, n_col, snake_len, n_fruits)

\* Game.play with any sequence of directions.
NextSnake ==
  /\ Len(snakegame.snake) < MaxBody
  /\ \E dir \in Direction : PlaySnake(dir)

SpecSnake == InitSnake /\ [][NextSnake]_vars

(* ------------------------- reading a call record ----------------------- *)
\* The last call was a make_move that has returned or raised.
MoveCalled == call.op = "make_move"
\* An argument of the last make_move lies outside 0..7.
ArgOutside == \E i \in 1 .. 4 : call.args[i] \notin Rows
\* All arguments of the last make_move are served by the two list lookups.
ArgsServed == \A i \in 1 .. 4 : InList(call.args[i])
\* The cells the last make_move resolved, and what stood on them before it.
StartCell == <<Index(call.args[1]), Index(call.args[2])>>
EndCell == <<Index(call.args[3]), Index(call.args[4])>>
Mover == call.pre.board[StartCell[1]][StartCell[2]]
Victim == call.pre.board[EndCell[1]][EndCell[2]]
\* Nothing the game owns differs from what it was when the call started.
Untouched ==
  /\ board = call.pre.board
  /\ is_killed = call.pre.is_killed
  /\ is_white_turn = call.pre.is_white_turn
  /\ current_state = call.pre.current_state
\* The move of the last make_move is applied in full.
FullyApplied ==
  /\ Mover # None
  /\ Victim # None => is_killed[Victim]
  /\ board[EndCell[1]][EndCell[2]] = Mover
  /\ board[StartCell[1]][StartCell[2]] = None
  /\ is_white_turn[call.g] = ~call.pre.is_white_turn[call.g]

(* ------------------------------- claims -------------------------------- *)
\* C1: every make_move call either returns true with the move fully applied
\* (captured piece marked, mover on the destination, source cleared, turn
\* flipped) or returns false with board, flags, turn and state as before.
C1_Atomic ==
  MoveCalled =>
    \/ call.ret = "True" /\ ArgsServed /\ FullyApplied
    \/ call.ret = "False" /\ Untouched

\* C2: a make_move that returns true negates is_white_turn, one that returns
\* false leaves it alone, and the k-th accepted move of a game is made by a
\* white piece iff k is odd.
C2_TurnAlternates ==
  MoveCalled =>
    /\ call.ret = "True" =>
         /\ is_white_turn[call.g] = ~call.pre.is_white_turn[call.g]
         /\ is_white(Mover) <=> (accepted[call.g] % 2 = 1)
    /\ call.ret = "False" => is_white_turn[call.g] = call.pre.is_white_turn[call.g]

\* C2 witness: black has just made the second accepted move of the game.
C2_Witness ==
  MoveCalled /\ call.ret = "True" /\ accepted[call.g] = 2 /\ ~is_white(Mover)

\* C3: make_move returns false and leaves the board unchanged whenever the
\* source cell is empty or holds a piece of the colour not to move.
C3_WrongSourceRejected ==
  (/\ MoveCalled
   /\ InList(call.args[1]) /\ InList(call.args[2])
   /\ \/ Mover = None
      \/ is_white(Mover) # call.pre.is_white_turn[call.g])
  => call.ret = "False" /\ Untouched

\* C4: an accepted move onto a cell holding a King sets current_state to
\* WHITE_WIN when a white piece moved and BLACK_WIN when a black piece moved;
\* any other accepted move leaves current_state as it was.
C4_KingCaptureWins ==
  (MoveCalled /\ call.ret = "True") =>
    IF Victim # None /\ Kind(Victim) = "king"
    THEN /\ is_white(Victim) # is_white(Mover)
         /\ current_state[call.g] = (IF is_white(Mover) THEN WHITE_WIN ELSE BLACK_WIN)
    ELSE current_state[call.g] = call.pre.current_state[call.g]

\* C4 witness: a black piece has just captured the white king.
C4_Witness ==
  /\ MoveCalled /\ call.ret = "True"
  /\ Victim # None /\ Kind(Victim) = "king" /\ ~is_white(Mover)
  /\ current_state[call.g] = BLACK_WIN

\* C5: once current_state is WHITE_WIN or BLACK_WIN no make_move call changes
\* the board, the side to move or current_state.
C5_TerminalFrozen ==
  (MoveCalled /\ call.pre.current_state[call.g] \in {WHITE_WIN, BLACK_WIN})
  => Untouched

\* C6: a make_move call with a coordinate outside 0..7 returns false, raises
\* nothing, and leaves board, side to move and current_state unchanged.
C6_OutOfRangeRejected ==
  (MoveCalled /\ ArgOutside) => call.ret = "False" /\ Untouched

\* The pieces of one colour standing on b.
OnBoard(b, white) ==
  { b[row][col] : row \in Rows, col \in Rows } \cap { p \in Pieces : is_white(p) = white }

\* The standard initial position, stated cell by cell.
StandardPosition(b) ==
  /\ Cardinality(OnBoard(b, TRUE)) = 16
  /\ Cardinality(OnBoard(b, FALSE)) = 16
  /\ \A col \in Rows :
       /\ b[0][col] # None /\ ~is_white(b[0][col]) /\ Kind(b[0][col]) = piece_order[col + 1]
       /\ b[1][col] # None /\ ~is_white(b[1][col]) /\ Kind(b[1][col]) = "pawn"
       /\ b[6][col] # None /\ is_white(b[6][col]) /\ Kind(b[6][col]) = "pawn"
       /\ b[7][col] # None /\ is_white(b[7][col]) /\ Kind(b[7][col]) = piece_order[col + 1]
       /\ \A row \in 2 .. 5 : b[row][col] = None
  /\ Kind(b[7][4]) = "king" /\ Kind(b[0][4]) = "king"
  /\ \A row \in {0, 7}, col \in {0, 7} : Kind(b[row][col]) = "rook"

\* C7: every Game, at the moment it is created, is IN_PROGRESS with white to
\* move on a board in the standard initial position.
C7_CreatedStandard ==
  call.op = "Game" =>
    /\ current_state[call.g] = IN_PROGRESS
    /\ is_white_turn[call.g]
    /\ StandardPosition(board)

\* C8: current_state is never DRAW, and a make_move that takes a game out of
\* IN_PROGRESS takes it to WHITE_WIN or BLACK_WIN.
C8_DrawUnreachable ==
  /\ \A g \in Games : current_state[g] \in {IN_PROGRESS, WHITE_WIN, BLACK_WIN}
  /\ (MoveCalled /\ call.pre.current_state[call.g] = IN_PROGRESS
        /\ current_state[call.g] # IN_PROGRESS)
     => current_state[call.g] \in {WHITE_WIN, BLACK_WIN}

\* C8 witness: a make_move has just taken the game out of IN_PROGRESS.
C8_Witness ==
  /\ MoveCalled /\ call.pre.current_state[call.g] = IN_PROGRESS
  /\ current_state[call.g] # IN_PROGRESS

\* C9: whatever the piece kind and the geometry, can_move is false when the
\* destination holds a piece of the mover's colour, and no accepted move
\* lands on (marks killed, overwrites) a piece of the mover's own colour.
C9_FriendlyFire ==
  /\ call.op = "none" =>
       \A sr \in Rows, sc \in Rows, er \in Rows, ec \in Rows :
         (/\ board[sr][sc] # None /\ board[er][ec] # None
          /\ is_white(board[sr][sc]) = is_white(board[er][ec]))
         => ~can_move(board, board[sr][sc], <<sr, sc>>, <<er, ec>>)
  /\ (MoveCalled /\ call.ret = "True" /\ Victim # None)
       => is_white(Victim) # is_white(Mover)

\* C9 witness: a move onto an own piece that the mover's variant rule alone
\* would allow has just been rejected.
C9_Witness ==
  /\ MoveCalled /\ call.ret = "False" /\ ArgsServed
  /\ Mover # None /\ Victim # None /\ StartCell # EndCell
  /\ is_white(Mover) = call.pre.is_white_turn[call.g]
  /\ is_white(Victim) = is_white(Mover)
  /\ Variant_can_move(call.pre.board, Mover, StartCell, EndCell)

\* The last call was a can_move of a piece of the given kind.
RuleCalled(kind) == call.op = "can_move" /\ Kind(Mover) = kind

\* The cells strictly between two cells of one row or one column.
Between(s, e) ==
  { c \in Cells :
      \/ c[1] = s[1] /\ s[1] = e[1] /\ c[2] > s[2] /\ c[2] < e[2]
      \/ c[1] = s[1] /\ s[1] = e[1] /\ c[2] < s[2] /\ c[2] > e[2]
      \/ c[2] = s[2] /\ s[2] = e[2] /\ c[1] > s[1] /\ c[1] < e[1]
      \/ c[2] = s[2] /\ s[2] = e[2] /\ c[1] < s[1] /\ c[1] > e[1] }

\* The destination does not hold a piece of the mover's colour.
NotOwnPiece == Victim = None \/ is_white(Victim) # is_white(Mover)

\* C10: a rook's can_move is true iff the destination is not a same-colour
\* piece, exactly one of row-delta and col-delta is zero, and every cell
\* strictly between start and end is empty.
C10_RookLegal ==
  RuleCalled("rook") =>
    (call.ret = "True" <=>
       /\ NotOwnPiece
       /\ (StartCell[1] = EndCell[1]) # (StartCell[2] = EndCell[2])
       /\ \A c \in Between(StartCell, EndCell) : board[c[1]][c[2]] = None)

\* C10 witness: the rook is refused an empty cell of its own row or column
\* because a piece stands in between.
C10_Witness ==
  /\ RuleCalled("rook") /\ call.ret = "False"
  /\ Victim = None
  /\ (StartCell[1] = EndCell[1]) # (StartCell[2] = EndCell[2])
  /\ \E c \in Between(StartCell, EndCell) : board[c[1]][c[2]] # None

\* C10, the spec's example: the white rook on (7,0) with (7,1)..(7,3) empty and
\* its own king on (7,4) is allowed (7,3).
C10_Example ==
  /\ RuleCalled("rook") /\ call.ret = "True"
  /\ StartCell = <<7, 0>> /\ EndCell = <<7, 3>>
  /\ board[7][4] = KingOf(TRUE)

\* The cells strictly between two cells of one diagonal.
BetweenDiagonal(s, e) ==
  { c \in Cells :
      /\ Abs(s[1] - e[1]) = Abs(s[2] - e[2])
      /\ Abs(c[1] - s[1]) = Abs(c[2] - s[2])
      /\ Abs(c[1] - e[1]) = Abs(c[2] - e[2])
      /\ Abs(c[1] - s[1]) + Abs(c[1] - e[1]) = Abs(s[1] - e[1])
      /\ c # s /\ c # e }

\* C11: a bishop's can_move is true iff the destination is not a same-colour
\* piece, |row-delta| = |col-delta|, and every diagonal cell strictly between
\* start and end is empty; it is false whenever |row-delta| # |col-delta|.
C11_BishopLegal ==
  RuleCalled("bishop") =>
    /\ call.ret = "True" <=>
         /\ NotOwnPiece
         /\ Abs(StartCell[1] - EndCell[1]) = Abs(StartCell[2] - EndCell[2])
         /\ \A c \in BetweenDiagonal(StartCell, EndCell) : board[c[1]][c[2]] = None
    /\ Abs(StartCell[1] - EndCell[1]) # Abs(StartCell[2] - EndCell[2]) => call.ret = "False"

\* C11 witness: the bishop is refused an empty cell of its diagonal because a
\* piece stands in between, two or more cells away from the bishop.
C11_Witness ==
  /\ RuleCalled("bishop") /\ call.ret = "False"
  /\ Victim = None
  /\ Abs(StartCell[1] - EndCell[1]) = Abs(StartCell[2] - EndCell[2])
  /\ \E c \in BetweenDiagonal(StartCell, EndCell) :
       board[c[1]][c[2]] # None /\ Abs(c[1] - StartCell[1]) >= 2

\* Rows the mover advances by the call's move (negative: backward).
Advance == (EndCell[1] - StartCell[1]) * (IF is_white(Mover) THEN -1 ELSE 1)

\* The mover stands on the home rank of its colour's pawns.
OnHomeRank == StartCell[1] = (IF is_white(Mover) THEN 6 ELSE 1)

\* The three pawn moves: (a) one step, (b) two steps from the home rank,
\* (c) diagonal capture.
PawnCases ==
  { x \in {"a", "b", "c"} :
      \/ x = "a" /\ StartCell[2] = EndCell[2] /\ Advance = 1 /\ Victim = None
      \/ x = "b" /\ StartCell[2] = EndCell[2] /\ OnHomeRank /\ Advance = 2 /\ Victim = None
      \/ x = "c" /\ Abs(StartCell[2] - EndCell[2]) = 1 /\ Advance = 1
                 /\ Victim # None /\ is_white(Victim) # is_white(Mover) }

\* C12: a pawn's can_move is true iff exactly one of (a) one step forward in its
\* column onto an empty cell, (b) two steps forward in its column from its home
\* rank onto an empty cell, (c) one step forward into an adjacent column onto a
\* piece of the other colour; it never moves backward, sideways, diagonally onto
\* an empty cell, or straight onto an occupied cell.
C12_PawnLegal ==
  RuleCalled("pawn") =>
    /\ call.ret = "True" <=> Cardinality(PawnCases) = 1
    /\ call.ret = "True" =>
         /\ Advance > 0
         /\ StartCell[2] # EndCell[2] => Victim # None
         /\ StartCell[2] = EndCell[2] => Victim = None

\* C12 witness: a pawn away from its home rank is refused the two-step advance
\* onto an empty cell behind an empty cell.
C12_Witness ==
  /\ RuleCalled("pawn") /\ call.ret = "False"
  /\ ~OnHomeRank /\ StartCell[2] = EndCell[2] /\ Advance = 2
  /\ Victim = None
  /\ \A c \in Between(StartCell, EndCell) : board[c[1]][c[2]] = None

\* C13: a pawn on its home rank is refused the two-step advance when the cell
\* it passes is occupied, by either colour.
C13_NoJump ==
  ( /\ RuleCalled("pawn")
    /\ OnHomeRank /\ StartCell[2] = EndCell[2] /\ Advance = 2
    /\ \E c \in Between(StartCell, EndCell) : board[c[1]][c[2]] # None )
  => call.ret = "False"

\* C14: a knight's can_move is true iff the destination is not a same-colour
\* piece and |row-delta| * |col-delta| = 2, whatever stands on the other cells;
\* in the initial position the white knight on (7,1) is accepted to (5,0) and
\* to (5,2).
C14_KnightLegal ==
  RuleCalled("knight") =>
    /\ call.ret = "True" <=>
         /\ NotOwnPiece
         /\ Abs(StartCell[1] - EndCell[1]) * Abs(StartCell[2] - EndCell[2]) = 2
    /\ ( /\ board = InitialBoard
         /\ StartCell = <<7, 1>>
         /\ EndCell \in {<<5, 0>>, <<5, 2>>} ) => call.ret = "True"

\* C14 witness: in the initial position the white knight on (7,1) is accepted
\* to (5,0) over the occupied cells (6,0), (6,1) and (6,2).
C14_Witness ==
  /\ RuleCalled("knight") /\ call.ret = "True"
  /\ board = InitialBoard
  /\ StartCell = <<7, 1>> /\ EndCell = <<5, 0>>
  /\ board[6][0] # None /\ board[6][1] # None /\ board[6][2] # None

\* The board with piece p on `cell`.
With(b, cell, p) == [b EXCEPT ![cell[1]][cell[2]] = p]

\* The king-side rook and bishop of a colour.
RookOf(white) == IF white THEN 32 ELSE 8
BishopOf(white) == IF white THEN 30 ELSE 6

\* C15: a queen's can_move is true iff the destination is not a same-colour
\* piece and the move is a rook move (one delta zero, cells between empty) or a
\* bishop move (equal deltas, diagonal cells between empty); it accepts exactly
\* what a rook or a bishop of its colour on its cell accepts.
C15_QueenLegal ==
  RuleCalled("queen") =>
    LET rook == RookOf(is_white(Mover))
        bishop == BishopOf(is_white(Mover))
        straight ==
          /\ (StartCell[1] = EndCell[1]) # (StartCell[2] = EndCell[2])
          /\ \A c \in Between(StartCell, EndCell) : board[c[1]][c[2]] = None
        diagonal ==
          /\ Abs(StartCell[1] - EndCell[1]) = Abs(StartCell[2] - EndCell[2])
          /\ \A c \in BetweenDiagonal(StartCell, EndCell) : board[c[1]][c[2]] = None
    IN  /\ call.ret = "True" <=> (NotOwnPiece /\ (straight \/ diagonal))
        /\ call.ret = "True" <=>
             \/ can_move(With(board, StartCell, rook), rook, StartCell, EndCell)
             \/ can_move(With(board, StartCell, bishop), bishop, StartCell, EndCell)

\* C15 witness: the queen is accepted along a diagonal of three or more cells,
\* and a piece stands on its row or column.
C15_Witness ==
  /\ RuleCalled("queen") /\ call.ret = "True"
  /\ Abs(StartCell[1] - EndCell[1]) >= 3
  /\ Abs(StartCell[1] - EndCell[1]) = Abs(StartCell[2] - EndCell[2])
  /\ \E c \in Cells :
       /\ c # StartCell /\ board[c[1]][c[2]] # None
       /\ c[1] = StartCell[1] \/ c[2] = StartCell[2]

\* C16: a king's can_move is true iff the destination is not a same-colour
\* piece and max(|row-delta|, |col-delta|) = 1; a move of two cells is never
\* accepted.
C16_KingLegal ==
  RuleCalled("king") =>
    /\ call.ret = "True" <=>
         /\ NotOwnPiece
         /\ Max(Abs(StartCell[1] - EndCell[1]), Abs(StartCell[2] - EndCell[2])) = 1
    /\ Max(Abs(StartCell[1] - EndCell[1]), Abs(StartCell[2] - EndCell[2])) >= 2
         => call.ret = "False"

\* C16 witness: the king is accepted onto an empty cell on which a piece of the
\* other colour could capture it.
C16_Witness ==
  /\ RuleCalled("king") /\ call.ret = "True"
  /\ Victim = None
  /\ \E c \in Cells :
       LET q == board[c[1]][c[2]]
           after == With(With(board, StartCell, None), EndCell, Mover)
       IN  /\ q # None /\ c # StartCell
           /\ is_white(q) # is_white(Mover)
           /\ can_move(after, q, c, EndCell)

\* C17: the cells are set up by the first construction only: a Game created
\* later finds the cells as the earlier games' moves left them, and a move
\* accepted through any Game is made on these cells, which all games read.
C17_OneBoard ==
  /\ games >= 1 => initialized
  /\ call.op = "Game" =>
       board = (IF call.pre.initialized THEN call.pre.board ELSE InitialBoard)
  /\ (MoveCalled /\ call.ret = "True") =>
       /\ board[EndCell[1]][EndCell[2]] = Mover
       /\ board[StartCell[1]][StartCell[2]] = None

\* C17 witness: a second Game has just been created and is on the cells that
\* the first Game's accepted move changed.
C17_Witness ==
  /\ call.op = "Game" /\ call.g = 2
  /\ accepted[1] >= 1
  /\ board # InitialBoard

\* The pieces standing on the cells.
Standing == { board[row][col] : row \in Rows, col \in Rows } \ { None }

\* C18: a piece stands on at most one cell; it stands on the board iff its
\* is_killed flag is false; a flag turns true only in the accepted move that
\* lands on the piece's cell, and never turns false again.
C18_CapturedFlag ==
  /\ Cardinality({ c \in Cells : board[c[1]][c[2]] # None }) = Cardinality(Standing)
  /\ Standing = { p \in Pieces : ~is_killed[p] }
  /\ MoveCalled =>
       \A p \in Pieces :
         /\ call.pre.is_killed[p] => is_killed[p]
         /\ (~call.pre.is_killed[p] /\ is_killed[p]) <=>
              (call.ret = "True" /\ Victim = p)

\* C18 witness: an accepted move has just captured a piece, while another
\* piece was captured before.
C18_Witness ==
  /\ MoveCalled /\ call.ret = "True"
  /\ Victim # None /\ is_killed[Victim]
  /\ \E p \in Pieces : call.pre.is_killed[p]

\* C19: the first Game of the process, which starts from the initial position,
\* is IN_PROGRESS iff both kings stand on the board; WHITE_WIN implies that the
\* black king is off the board, BLACK_WIN that the white king is off.
C19_TerminalIffKingCaptured ==
  games >= 1 =>
    /\ current_state[1] = IN_PROGRESS <=> (KingOf(TRUE) \in Standing /\ KingOf(FALSE) \in Standing)
    /\ current_state[1] = WHITE_WIN => KingOf(FALSE) \notin Standing
    /\ current_state[1] = BLACK_WIN => KingOf(TRUE) \notin Standing

\* The first Game's start() has been left.
Left == pc \in {"break", "exit", "raised"}

\* C20: start is left only with current_state out of IN_PROGRESS or on a None
\* from the provider; after a rejected move the loop goes on with the same side
\* to move, after an accepted move that captures no king it goes on, and once a
\* king is captured the provider is not asked again.
C20_LoopEnds ==
  /\ Left => \/ pc = "exit" /\ current_state[1] # IN_PROGRESS
             \/ pc = "break"
  /\ (MoveCalled /\ call.ret # "True") =>
       /\ pc = "while"
       /\ current_state[1] = IN_PROGRESS
       /\ is_white_turn[1] = call.pre.is_white_turn[1]
  /\ (MoveCalled /\ call.ret = "True" /\ (Victim = None \/ Kind(Victim) # "king")) =>
       /\ pc = "while"
       /\ current_state[1] = IN_PROGRESS
  /\ call.op \in {"make_move", "move_provider"} =>
       \A white \in BOOLEAN :
         \E row \in Rows, col \in Rows : call.pre.board[row][col] = KingOf(white)

\* The number of cells of b that hold a piece of one colour.
Count(b, white) ==
  Cardinality({ c \in Cells : b[c[1]][c[2]] # None /\ is_white(b[c[1]][c[2]]) = white })

\* C21: across every make_move the number of pieces on the board does not
\* grow; an accepted move onto an occupied cell takes one piece from the
\* moved-onto colour and none from the mover's colour; an accepted move onto an
\* empty cell and every rejected move leave both counts as they were; the
\* mover arrives as the same piece (same kind, same colour), and every cell
\* other than the source and the destination keeps its occupant.
C21_Conservation ==
  MoveCalled =>
    /\ Count(board, TRUE) + Count(board, FALSE)
         <= Count(call.pre.board, TRUE) + Count(call.pre.board, FALSE)
    /\ (call.ret = "True" /\ Victim # None) =>
         /\ Count(board, is_white(Victim)) = Count(call.pre.board, is_white(Victim)) - 1
         /\ Count(board, is_white(Mover)) = Count(call.pre.board, is_white(Mover))
    /\ (call.ret # "True" \/ Victim = None) =>
         \A white \in BOOLEAN : Count(board, white) = Count(call.pre.board, white)
    /\ call.ret = "True" =>
         /\ board[EndCell[1]][EndCell[2]] = Mover
         /\ \A c \in Cells \ {StartCell, EndCell} :
              board[c[1]][c[2]] = call.pre.board[c[1]][c[2]]
    /\ call.ret # "True" => board = call.pre.board

\* C21 witness: black has just captured a white piece, after white captured a
\* black one.
C21_Witness ==
  /\ MoveCalled /\ call.ret = "True"
  /\ Victim # None /\ is_white(Victim)
  /\ Count(board, TRUE) = 15
  /\ Count(board, FALSE) = 15

\* C22: make_move with the start cell as the end cell returns false and
\* changes nothing, on every cell of every position and for either side to
\* move, so the turn cannot be passed.
C22_NullMoveRejected ==
  /\ call.op = "none" =>
       \A row \in Rows, col \in Rows, turn \in BOOLEAN, state \in GameState :
         make_move(board, is_killed, turn, state, row, col, row, col).ret = "False"
  /\ (MoveCalled /\ ArgsServed /\ StartCell = EndCell) =>
       /\ call.ret = "False"
       /\ Untouched

\* C22 witness: the side to move has just been refused a null move of its
\* queen, which the queen's own rule (through the rook's) would accept.
C22_Witness ==
  /\ MoveCalled /\ call.ret = "False" /\ ArgsServed
  /\ StartCell = EndCell
  /\ Mover # None /\ Kind(Mover) = "queen"
  /\ is_white(Mover) = call.pre.is_white_turn[call.g]
  /\ Variant_can_move(call.pre.board, Mover, StartCell, EndCell)

\* The last iteration of play got a cell that is_valid_move refuses.
InvalidPlayed ==
  /\ tictactoe.move # <<>>
  /\ ~Board_is_valid_move(tictactoe.pre.grid, tictactoe.move[1], tictactoe.move[2])

\* The EMPTY cells of the tic-tac-toe grid.
EmptyCells == { c \in Lines \X Lines : tictactoe.grid[c[1]][c[2]] = EMPTY }

\* C23: an iteration of play that gets an out-of-bounds or occupied cell
\* changes neither the grid nor remaining_cells nor the turn; remaining_cells
\* is the number of EMPTY cells; the state is DRAW only on a full grid without
\* a winning line.
C23_AppliesOnlyValid ==
  /\ InvalidPlayed =>
       /\ tictactoe.grid = tictactoe.pre.grid
       /\ tictactoe.remaining_cells = tictactoe.pre.remaining_cells
       /\ tictactoe.current_turn = tictactoe.pre.current_turn
  /\ tictactoe.remaining_cells = Cardinality(EmptyCells)
  /\ tictactoe.current_state = State_DRAW =>
       /\ EmptyCells = {}
       /\ ~check_winner(tictactoe.grid, X)
       /\ ~check_winner(tictactoe.grid, O)

\* The positions in the snake deque.
Body == { snakegame.snake[i] : i \in 1 .. Len(snakegame.snake) }

\* C24: a grid cell holds SNAKE iff its position is in the deque; the deque
\* holds no position twice; it grows by exactly one on a FRUIT move and keeps
\* its length on an EMPTY move.
C24_GridBodyConsistent ==
  /\ \A q \in Positions(snakegame.grid) :
       snakegame.grid[q[1]][q[2]] = SNAKE <=> q \in Body
  /\ Cardinality(Body) = Len(snakegame.snake)
  /\ snakegame.branch = FRUIT => Len(snakegame.snake) = Len(snakegame.pre.snake) + 1
  /\ snakegame.branch = CellValues_EMPTY => Len(snakegame.snake) = Len(snakegame.pre.snake)

====
